---- MODULE Spec2Model ----
(***************************************************************************)
(* Model of the MQTT PubSub channel of plugins/ua_network_pubsub_mqtt.c:   *)
(* the channel factory (open with rollback), regist, unregist, send,       *)
(* yield and close, over an explicit heap and a log of the calls each      *)
(* operation makes (Spec, and SpecOpen for the open of one configuration), *)
(* and of the nodestore switch driven by examples/                         *)
(* server_nodestore_switch.c (SpecRegistry).                               *)
(***************************************************************************)
EXTENDS Integers, Sequences, FiniteSets, TLC

\* ------------------------------------------------------------------ bounds
MaxProps == 2        \* longest connection property list
MaxCloses == 2       \* close calls made through one returned channel pointer
MaxServers == 2      \* server instances (registries) created one after another

\* --------------------------------------------------------------- constants
DefaultBufferSize == 2000
DefaultClientId == "open62541_pub"

GOOD == "Good"
BADCONNECTIONCLOSED == "BadConnectionClosed"
BADARGUMENTSMISSING == "BadArgumentsMissing"
BADINTERNALERROR == "BadInternalError"
BADINVALIDARGUMENT == "BadInvalidArgument"

\* Failure codes of the transport primitives (the adapter is not part of
\* the modelled sources; the spec calls this class TransportFailure).
TransportFailure == {"BadCommunicationError", "BadNotConnected"}
TransportResults == {GOOD} \cup TransportFailure

\* ------------------------------------------------------------ input domains
BufSizes == {0, 10}
ClientIds == {"c1"}
PropNames == {"sendBufferSize", "recvBufferSize", "mqttClientId", "other"}
\* Properties: every name with a UInt32 value or with a String value.
Props ==
    [name : PropNames, type : {"UInt32"}, num : BufSizes, str : {""}]
    \cup [name : PropNames, type : {"String"}, num : {0}, str : ClientIds]

RECURSIVE SeqsUpTo(_, _)
SeqsUpTo(S, n) ==
    IF n = 0 THEN {<<>>}
    ELSE LET shorter == SeqsUpTo(S, n - 1)
         IN  shorter \cup {Append(q, x) : q \in {t \in shorter : Len(t) = n - 1}, x \in S}

\* Connection configurations: an address of the recognised type or not, and
\* an ordered property list.
Configs == [addressOk : BOOLEAN, props : SeqsUpTo(Props, MaxProps)]

\* The allocation that returns NULL during an open ("none": all succeed).
AllocFailures == {"none", "channelData", "channel", "recvBuffer", "sendBuffer"}

Guarantees == {"BestEffort", "AtLeastOnce", "AtMostOnce", "Other"}
Topics == {"t1", "t2"}
Settings ==
    [kind : {"null", "encoded", "wrongType"}, queueName : {""}, guarantee : {"Other"}]
    \cup [kind : {"broker"}, queueName : Topics, guarantee : Guarantees]
Callbacks == {"cbA", "cbB"}

Resources == {"channelData", "channel", "recvBuffer", "sendBuffer", "connection"}

\* Namespace indices, the externally created nodestores, the nodestore a
\* server creates for itself, and the NULL nodestore pointer.
NsIndices == {0, 1}
Backends == {"ns1Nodestore", "ns2Nodestore"}
DefaultBackend == "default"
NoBackend == "NULL"

VARIABLES
    requested,  \* the factory has been asked for the channel
    handle,     \* pointer the factory returned to the caller: "NULL" or "channel"
    state,      \* channel->state ("None" while no channel object was ever built)
    heap,       \* resource -> "none" | "alloc" | "freed" | "doublefreed"
    sendSize,   \* channelDataMQTT->mqttSendBufferSize
    recvSize,   \* channelDataMQTT->mqttRecvBufferSize
    clientId,   \* *channelDataMQTT->mqttClientId as seen by connectMqtt
    callback,   \* channelDataMQTT->callback
    installed,  \* the five function pointers are set
    errCause,   \* the status code that moved the channel to Error
    closes,     \* close calls made through the current handle
    op          \* the last operation: name, argument, result, calls made

VARIABLES
    config      \* the connection configuration whose open is studied

VARIABLES
    server,     \* "up" while a server (and its nodestore switch) exists
    servers,    \* server instances created so far
    registry,   \* the switch: namespace index -> linked nodestore or NULL
    alive,      \* nodestore -> it has not been deleted
    nodes,      \* nodestore -> server instances under which it received nodes
    lastSet,    \* namespace index -> argument of the latest setNodestore
    regOp       \* the last registry operation and its result

chanVars == <<requested, handle, state, heap, sendSize, recvSize, clientId, callback,
              installed, errCause, closes, op>>
regVars == <<server, servers, registry, alive, nodes, lastSet, regOp>>
vars == <<chanVars, config, regVars>>

\* ---------------------------------------------------------------- the heap
Ev(k, r, qos, res) == [k |-> k, r |-> r, qos |-> qos, res |-> res]

\* UA_calloc: a successful allocation makes the block live.
UA_calloc(h, r, res) ==
    IF res = GOOD THEN [h EXCEPT ![r] = "alloc"] ELSE h

\* UA_free: free(NULL) is a no-op, freeing a freed block is a double free.
UA_free(h, r) ==
    [h EXCEPT ![r] = IF h[r] = "none" THEN "none"
                     ELSE IF h[r] = "alloc" THEN "freed"
                     ELSE "doublefreed"]

\* connectMqtt: on success the channel holds a broker connection.
connectMqtt(h, res) ==
    IF res = GOOD THEN [h EXCEPT !["connection"] = "alloc"] ELSE h

\* disconnectMqtt: releases the broker connection, nothing else.
disconnectMqtt(h) ==
    [h EXCEPT !["connection"] = IF h["connection"] = "none" THEN "none"
                                ELSE IF h["connection"] = "alloc" THEN "freed"
                                ELSE "doublefreed"]

ApplyEvent(h, e) ==
    IF e.k = "alloc" THEN UA_calloc(h, e.r, e.res)
    ELSE IF e.k = "free" THEN UA_free(h, e.r)
    ELSE IF e.k = "connect" THEN connectMqtt(h, e.res)
    ELSE IF e.k = "disconnect" THEN disconnectMqtt(h)
    ELSE h

RECURSIVE ApplyTrace(_, _)
ApplyTrace(h, t) ==
    IF t = <<>> THEN h ELSE ApplyTrace(ApplyEvent(h, Head(t)), Tail(t))

EmptyHeap == [r \in Resources |-> "none"]

\* ------------------------------------------------------- QoS translation
\* Variant: the levels follow delivery strength (AtMostOnce weakest).
UA_uaQos_toMqttQos_byStrength(uaQos, qos) ==
    IF uaQos = "AtMostOnce" THEN 0
    ELSE IF uaQos = "AtLeastOnce" THEN 1
    ELSE IF uaQos = "BestEffort" THEN 2
    ELSE qos

\* UA_uaQos_toMqttQos: writes *qos for the three known guarantees and leaves
\* it as the caller initialised it for any other value.
UA_uaQos_toMqttQos(uaQos, qos) ==
    IF uaQos = "BestEffort" THEN 0
    ELSE IF uaQos = "AtLeastOnce" THEN 1
    ELSE IF uaQos = "AtMostOnce" THEN 2
    ELSE qos

\* ------------------------------------------------- connection properties
\* Variant: the client id is left as calloc zeroed it.
DefaultChannelData_noClientId ==
    [sendSize |-> DefaultBufferSize, recvSize |-> DefaultBufferSize, clientId |-> ""]

\* The defaults written into the channel data before the list is walked.
DefaultChannelData ==
    [sendSize |-> DefaultBufferSize, recvSize |-> DefaultBufferSize,
     clientId |-> DefaultClientId]

\* Variant: the value type of the buffer sizes is not checked.
ApplyProperty_untyped(cd, p) ==
    IF p.name = "sendBufferSize" THEN [cd EXCEPT !.sendSize = p.num]
    ELSE IF p.name = "recvBufferSize" THEN [cd EXCEPT !.recvSize = p.num]
    ELSE IF p.name = "mqttClientId"
    THEN (IF p.type = "String" THEN [cd EXCEPT !.clientId = p.str] ELSE cd)
    ELSE cd

\* Variant: the last name test is missing, so every remaining property is
\* taken for the client id.
ApplyProperty_lastBranch(cd, p) ==
    IF p.name = "sendBufferSize"
    THEN (IF p.type = "UInt32" THEN [cd EXCEPT !.sendSize = p.num] ELSE cd)
    ELSE IF p.name = "recvBufferSize"
    THEN (IF p.type = "UInt32" THEN [cd EXCEPT !.recvSize = p.num] ELSE cd)
    ELSE (IF p.type = "String" THEN [cd EXCEPT !.clientId = p.str] ELSE cd)

\* One iteration of the loop over connectionProperties.
ApplyProperty(cd, p) ==
    IF p.name = "sendBufferSize"
    THEN (IF p.type = "UInt32" THEN [cd EXCEPT !.sendSize = p.num] ELSE cd)
    ELSE IF p.name = "recvBufferSize"
    THEN (IF p.type = "UInt32" THEN [cd EXCEPT !.recvSize = p.num] ELSE cd)
    ELSE IF p.name = "mqttClientId"
    THEN (IF p.type = "String" THEN [cd EXCEPT !.clientId = p.str] ELSE cd)
    ELSE cd

RECURSIVE ParseProperties(_, _)
ParseProperties(cd, props) ==
    IF props = <<>> THEN cd
    ELSE ParseProperties(ApplyProperty(cd, Head(props)), Tail(props))

\* ------------------------------------------------------------------ open
\* Variant: the size test is dropped and a buffer is requested for any size.
AllocatesBuffer_always(size) == size >= 0

\* Whether open allocates a buffer of the given resolved size.
AllocatesBuffer(size) == size > 0

\* Variant: the rollback of a failed send-buffer allocation forgets the
\* receive buffer.
OpenRollback_leak(failAt, cd) ==
    IF failAt = "channel" THEN
        <<Ev("free", "channelData", 0, GOOD)>>
    ELSE IF failAt \in {"recvBuffer", "sendBuffer"} THEN
        <<Ev("free", "channelData", 0, GOOD), Ev("free", "channel", 0, GOOD)>>
    ELSE IF failAt = "connect" THEN
        <<Ev("disconnect", "connection", 0, GOOD),
          Ev("free", "sendBuffer", 0, GOOD), Ev("free", "recvBuffer", 0, GOOD),
          Ev("free", "channelData", 0, GOOD), Ev("free", "channel", 0, GOOD)>>
    ELSE <<>>

\* The frees of open's rollback after the step `failAt` failed, in the
\* order the code performs them.
OpenRollback(failAt, cd) ==
    IF failAt = "channel" THEN
        <<Ev("free", "channelData", 0, GOOD)>>
    ELSE IF failAt = "recvBuffer" THEN
        <<Ev("free", "channelData", 0, GOOD), Ev("free", "channel", 0, GOOD)>>
    ELSE IF failAt = "sendBuffer" THEN
        (IF cd.recvSize > 0 THEN <<Ev("free", "recvBuffer", 0, GOOD)>> ELSE <<>>)
        \o <<Ev("free", "channelData", 0, GOOD), Ev("free", "channel", 0, GOOD)>>
    ELSE IF failAt = "connect" THEN
        <<Ev("disconnect", "connection", 0, GOOD),
          Ev("free", "sendBuffer", 0, GOOD), Ev("free", "recvBuffer", 0, GOOD),
          Ev("free", "channelData", 0, GOOD), Ev("free", "channel", 0, GOOD)>>
    ELSE <<>>

\* The calls UA_PubSubChannelMQTT_open makes for a valid address, up to and
\* including the first failing step (`failAt`, "none" when nothing fails).
\* connRes is the result of connectMqtt.
OpenAcquire(failAt, cd, connRes) ==
    LET a1 == <<Ev("alloc", "channelData", 0, IF failAt = "channelData" THEN "NULL" ELSE GOOD)>>
        a2 == <<Ev("alloc", "channel", 0, IF failAt = "channel" THEN "NULL" ELSE GOOD)>>
        a3 == IF AllocatesBuffer(cd.recvSize)
              THEN <<Ev("alloc", "recvBuffer", 0, IF failAt = "recvBuffer" THEN "NULL" ELSE GOOD)>>
              ELSE <<>>
        a4 == IF AllocatesBuffer(cd.sendSize)
              THEN <<Ev("alloc", "sendBuffer", 0, IF failAt = "sendBuffer" THEN "NULL" ELSE GOOD)>>
              ELSE <<>>
        a5 == <<Ev("connect", "connection", 0, connRes)>>
    IN  IF failAt = "channelData" THEN a1
        ELSE IF failAt = "channel" THEN a1 \o a2
        ELSE IF failAt = "recvBuffer" THEN a1 \o a2 \o a3
        ELSE IF failAt = "sendBuffer" THEN a1 \o a2 \o a3 \o a4
        ELSE a1 \o a2 \o a3 \o a4 \o a5

\* Variant: the result of connectMqtt is not looked at.
FailedStep_ignoreConnect(allocFail, cd, connRes) ==
    IF allocFail \in {"channelData", "channel"} THEN allocFail
    ELSE IF allocFail = "recvBuffer" /\ AllocatesBuffer(cd.recvSize) THEN allocFail
    ELSE IF allocFail = "sendBuffer" /\ AllocatesBuffer(cd.sendSize) THEN allocFail
    ELSE "none"

\* The step of open that fails: the injected allocation failure if that
\* allocation is attempted at all (a zero-sized buffer is never allocated),
\* else the connect when connectMqtt does not return GOOD, else "none".
FailedStep(allocFail, cd, connRes) ==
    IF allocFail \in {"channelData", "channel"} THEN allocFail
    ELSE IF allocFail = "recvBuffer" /\ AllocatesBuffer(cd.recvSize) THEN allocFail
    ELSE IF allocFail = "sendBuffer" /\ AllocatesBuffer(cd.sendSize) THEN allocFail
    ELSE IF connRes # GOOD THEN "connect"
    ELSE "none"

\* Variant: the address type is not checked.
AddressValid_unchecked(cfg) == TRUE

\* The address check at the head of open.
AddressValid(cfg) == cfg.addressOk

\* Everything UA_PubSubChannelMQTT_open does to the heap and the transport.
OpenTrace(cfg, allocFail, connRes) ==
    IF ~AddressValid(cfg) THEN <<>>
    ELSE LET cd == ParseProperties(DefaultChannelData, cfg.props)
             f  == FailedStep(allocFail, cd, connRes)
         IN  OpenAcquire(f, cd, connRes) \o OpenRollback(f, cd)

\* open returns the new channel only when the address is valid and no step
\* failed; otherwise it returns NULL.
OpenSucceeds(cfg, allocFail, connRes) ==
    /\ AddressValid(cfg)
    /\ FailedStep(allocFail, ParseProperties(DefaultChannelData, cfg.props), connRes) = "none"

NoOp == [name |-> "init", arg |-> "none", ret |-> "none", pre |-> "None", trace |-> <<>>]

\* The channel before the factory is called.
ChanInit ==
    /\ requested = FALSE
    /\ handle = "NULL"
    /\ state = "None"
    /\ heap = EmptyHeap
    /\ sendSize = 0
    /\ recvSize = 0
    /\ clientId = ""
    /\ callback = "NULL"
    /\ installed = FALSE
    /\ errCause = "none"
    /\ closes = 0
    /\ op = NoOp

\* No configuration is singled out: open draws its own.
NoConfig == [addressOk |-> FALSE, props |-> <<>>]

AllStores == Backends \cup {DefaultBackend}

\* A new server with an empty switch; the external nodestores exist.
RegInit ==
    /\ server = "up"
    /\ servers = 1
    /\ registry = [n \in NsIndices |-> NoBackend]
    /\ alive = [b \in AllStores |-> TRUE]
    /\ nodes = [b \in AllStores |-> {}]
    /\ lastSet = [n \in NsIndices |-> "unset"]
    /\ regOp = [name |-> "init", n |-> 0, h |-> NoBackend, result |-> NoBackend]

Init == ChanInit /\ config = NoConfig /\ RegInit

\* The caller holds a channel pointer whose object has not been freed.
Live == handle = "channel" /\ heap["channel"] = "alloc"

\* TransportLayerMQTT_addChannel: open, and on success install the five
\* operations.  A behaviour follows one channel request and the lifetime of
\* the channel it returns.
TransportLayerMQTT_addChannel(cfg, allocFail, connRes) ==
    /\ ~requested
    /\ requested' = TRUE
    /\ UNCHANGED <<config, regVars>>
    /\ LET t  == OpenTrace(cfg, allocFail, connRes)
           ok == OpenSucceeds(cfg, allocFail, connRes)
           cd == ParseProperties(DefaultChannelData, cfg.props)
           parsed == AddressValid(cfg) /\ allocFail # "channelData"
       IN  /\ heap' = ApplyTrace(EmptyHeap, t)
           /\ handle' = IF ok THEN "channel" ELSE "NULL"
           /\ state' = IF ok THEN "Ready" ELSE "None"
           /\ installed' = ok
           /\ sendSize' = IF parsed THEN cd.sendSize ELSE 0
           /\ recvSize' = IF parsed THEN cd.recvSize ELSE 0
           /\ clientId' = IF parsed THEN cd.clientId ELSE ""
           /\ callback' = "NULL"
           /\ errCause' = "none"
           /\ closes' = 0
           /\ op' = [name |-> "open",
                     arg |-> [addressOk |-> cfg.addressOk, allocFail |-> allocFail,
                              connRes |-> connRes],
                     ret |-> IF ok THEN "channel" ELSE "NULL",
                     pre |-> "None", trace |-> t]

\* ------------------------------------------------------ channel operations
Op(name, arg, ret, pre, trace) ==
    [name |-> name, arg |-> arg, ret |-> ret, pre |-> pre, trace |-> trace]

\* Variant: the type of the decoded settings is not checked.
HasBrokerSettings_anyDecoded(ts) == ts.kind \in {"broker", "wrongType"}

\* The test the three topic operations make on their settings argument:
\* present, decoded and of the broker transport type.
HasBrokerSettings(ts) == ts.kind = "broker"

\* Variant: only a Closed channel is turned away.
NotReady_closedOnly(st) == st = "Closed"

\* The state check at the head of regist, unregist and send.
NotReady(st) == st # "Ready"

\* regist: the transport call it makes (subRes is what subscribeMqtt returns).
RegistTrace(st, ts, subRes) ==
    IF NotReady(st) \/ ~HasBrokerSettings(ts) THEN <<>>
    ELSE <<Ev("subscribe", ts.queueName, UA_uaQos_toMqttQos(ts.guarantee, 0), subRes)>>

\* regist: its return value.
RegistRet(st, ts, subRes) ==
    IF NotReady(st) THEN BADCONNECTIONCLOSED
    ELSE IF HasBrokerSettings(ts) THEN subRes
    ELSE BADARGUMENTSMISSING

\* regist: the callback recorded in the channel data afterwards.
RegistCallback(st, old, cb) == IF NotReady(st) THEN old ELSE cb

UA_PubSubChannelMQTT_regist(ts, cb, subRes) ==
    /\ Live
    /\ callback' = RegistCallback(state, callback, cb)
    /\ op' = Op("regist", ts, RegistRet(state, ts, subRes), state,
                RegistTrace(state, ts, subRes))
    /\ UNCHANGED <<config, regVars>>
    /\ UNCHANGED <<requested, handle, state, heap, sendSize, recvSize, clientId, installed,
                   errCause, closes>>

\* unregist: the transport call it makes (unsubRes is what unSubscribeMqtt
\* returns).
UnregistTrace(st, ts, unsubRes) ==
    IF NotReady(st) \/ ~HasBrokerSettings(ts) THEN <<>>
    ELSE <<Ev("unsubscribe", ts.queueName, 0, unsubRes)>>

\* unregist: its return value.
UnregistRet(st, ts, unsubRes) ==
    IF NotReady(st) THEN BADCONNECTIONCLOSED
    ELSE IF HasBrokerSettings(ts) THEN unsubRes
    ELSE BADARGUMENTSMISSING

UA_PubSubChannelMQTT_unregist(ts, unsubRes) ==
    /\ Live
    /\ op' = Op("unregist", ts, UnregistRet(state, ts, unsubRes), state,
                UnregistTrace(state, ts, unsubRes))
    /\ UNCHANGED <<config, regVars>>
    /\ UNCHANGED <<requested, handle, state, heap, sendSize, recvSize, clientId, callback,
                   installed, errCause, closes>>

\* send: the transport call it makes (pubRes is what publishMqtt returns).
SendTrace(st, ts, pubRes) ==
    IF NotReady(st) \/ ~HasBrokerSettings(ts) THEN <<>>
    ELSE <<Ev("publish", ts.queueName, UA_uaQos_toMqttQos(ts.guarantee, 0), pubRes)>>

\* send: its return value; without usable settings ret keeps the value it
\* was initialised with.
SendRet(st, ts, pubRes) ==
    IF NotReady(st) THEN BADCONNECTIONCLOSED
    ELSE IF HasBrokerSettings(ts) THEN pubRes
    ELSE GOOD

\* Variant: a failed publish does not mark the channel.
SendNextState_keep(st, ts, pubRes) == st

\* send: the channel state afterwards.
SendNextState(st, ts, pubRes) ==
    IF ~NotReady(st) /\ HasBrokerSettings(ts) /\ pubRes # GOOD THEN "Error" ELSE st

UA_PubSubChannelMQTT_send(ts, pubRes) ==
    /\ Live
    /\ state' = SendNextState(state, ts, pubRes)
    /\ errCause' = IF state' # state THEN pubRes ELSE errCause
    /\ op' = Op("send", ts, SendRet(state, ts, pubRes), state,
                SendTrace(state, ts, pubRes))
    /\ UNCHANGED <<config, regVars>>
    /\ UNCHANGED <<requested, handle, heap, sendSize, recvSize, clientId, callback, installed,
                   closes>>

\* yield: the transport call it makes (pumpRes is what yieldMqtt returns).
YieldTrace(st, pumpRes) ==
    IF st = "Error" THEN <<>> ELSE <<Ev("yield", "connection", 0, pumpRes)>>

\* yield: its return value for a non-NULL channel.
YieldRet(st, pumpRes) ==
    IF st = "Error" THEN BADINTERNALERROR ELSE pumpRes

\* Variant: the state is derived from the pump result alone, so a good
\* pump re-arms a channel that was in Error.
YieldNextState_rearm(st, pumpRes) == IF pumpRes # GOOD THEN "Error" ELSE "Ready"

\* yield: the channel state afterwards.
YieldNextState(st, pumpRes) ==
    IF st = "Error" THEN st
    ELSE IF pumpRes # GOOD THEN "Error"
    ELSE st

UA_PubSubChannelMQTT_yield(pumpRes) ==
    /\ Live
    /\ state' = YieldNextState(state, pumpRes)
    /\ errCause' = IF state' # state THEN pumpRes ELSE errCause
    /\ op' = Op("yield", "channel", YieldRet(state, pumpRes), state,
                YieldTrace(state, pumpRes))
    /\ UNCHANGED <<config, regVars>>
    /\ UNCHANGED <<requested, handle, heap, sendSize, recvSize, clientId, callback, installed,
                   closes>>

\* UA_PubSubChannelMQTT_yield(NULL, timeout).
UA_PubSubChannelMQTT_yield_null ==
    /\ op' = Op("yield", "NULL", BADINVALIDARGUMENT, state, <<>>)
    /\ UNCHANGED <<config, regVars>>
    /\ UNCHANGED <<requested, handle, state, heap, sendSize, recvSize, clientId, callback,
                   installed, errCause, closes>>

ChannelStates == {"Ready", "Error", "Closed"}

\* What close does: nothing when its state check reads Closed, otherwise
\* disconnect, free the channel data, free the channel.
CloseTrace(seen) ==
    IF seen = "Closed" THEN <<>>
    ELSE <<Ev("disconnect", "connection", 0, GOOD),
           Ev("free", "channelData", 0, GOOD), Ev("free", "channel", 0, GOOD)>>

\* UA_PubSubChannelMQTT_close through the pointer the caller holds.  `seen`
\* is the value the state check reads: the field itself while the channel
\* object is allocated, any value once the object has been freed (the
\* caller's pointer then dangles).  close never writes channel->state.
UA_PubSubChannelMQTT_close(seen) ==
    /\ handle = "channel"
    /\ closes < MaxCloses
    /\ heap["channel"] = "alloc" => seen = state
    /\ closes' = closes + 1
    /\ heap' = ApplyTrace(heap, CloseTrace(seen))
    /\ op' = Op("close", seen, GOOD, state, CloseTrace(seen))
    /\ UNCHANGED <<config, regVars>>
    /\ UNCHANGED <<requested, handle, state, sendSize, recvSize, clientId, callback, installed,
                   errCause>>

Next ==
    \/ \E cfg \in Configs, allocFail \in AllocFailures, connRes \in TransportResults :
          TransportLayerMQTT_addChannel(cfg, allocFail, connRes)
    \/ \E ts \in Settings, cb \in Callbacks, subRes \in TransportResults :
          UA_PubSubChannelMQTT_regist(ts, cb, subRes)
    \/ \E ts \in Settings, unsubRes \in TransportResults :
          UA_PubSubChannelMQTT_unregist(ts, unsubRes)
    \/ \E ts \in Settings, pubRes \in TransportResults :
          UA_PubSubChannelMQTT_send(ts, pubRes)
    \/ \E pumpRes \in TransportResults : UA_PubSubChannelMQTT_yield(pumpRes)
    \/ UA_PubSubChannelMQTT_yield_null
    \/ \E seen \in ChannelStates : UA_PubSubChannelMQTT_close(seen)

Spec == Init /\ [][Next]_vars

\* ------------------------------------------- open of a given configuration
\* The factory applied to the configuration held in `config`, for every
\* configuration, allocation failure and connect result.
InitOpen == ChanInit /\ config \in Configs /\ RegInit

OpenConfigured(allocFail, connRes) ==
    TransportLayerMQTT_addChannel(config, allocFail, connRes)

NextOpen ==
    \E allocFail \in AllocFailures, connRes \in TransportResults :
        OpenConfigured(allocFail, connRes)

SpecOpen == InitOpen /\ [][NextOpen]_vars

\* ------------------------------------------------------- nodestore switch
\* The switch and the server teardown are used by examples/
\* server_nodestore_switch.c; their behaviour is taken from the
\* specification of the backend routing registry.

\* Variant: an unmapped namespace falls back to any linked nodestore.
GetNodestoreOf_anyLinked(reg, n) ==
    IF reg[n] # NoBackend THEN reg[n]
    ELSE IF \E m \in NsIndices : reg[m] # NoBackend
    THEN reg[CHOOSE m \in NsIndices : reg[m] # NoBackend]
    ELSE DefaultBackend

\* getBackend: the nodestore linked to n, else the default nodestore.
GetNodestoreOf(reg, n) ==
    IF reg[n] # NoBackend THEN reg[n] ELSE DefaultBackend

\* Variant: the link is written to every namespace.
LinkNodestore_all(reg, n, h) == [m \in NsIndices |-> h]

\* setBackend: install, replace or (h = NULL) remove the link of n.
LinkNodestore(reg, n, h) == [reg EXCEPT ![n] = h]

\* Variant: the teardown deletes every nodestore it ever knew.
DeletedWithServer_all(reg) == AllStores

\* The nodestores a server teardown deletes: the default one and those
\* still linked.
DeletedWithServer(reg) ==
    {DefaultBackend} \cup {reg[n] : n \in {m \in NsIndices : reg[m] # NoBackend}}

RegOp(name, n, h, result) == [name |-> name, n |-> n, h |-> h, result |-> result]

\* UA_Nodestore_Switch_setNodestore(switch, n, h), h a live nodestore or NULL.
UA_Nodestore_Switch_setNodestore(n, h) ==
    /\ server = "up"
    /\ h # NoBackend => alive[h]
    /\ registry' = LinkNodestore(registry, n, h)
    /\ lastSet' = [lastSet EXCEPT ![n] = h]
    /\ regOp' = RegOp("set", n, h, NoBackend)
    /\ UNCHANGED <<server, servers, alive, nodes>>
    /\ UNCHANGED <<chanVars, config>>

\* getBackend(n).
UA_Nodestore_Switch_getNodestore(n) ==
    /\ server = "up"
    /\ regOp' = RegOp("get", n, NoBackend, GetNodestoreOf(registry, n))
    /\ UNCHANGED <<server, servers, registry, alive, nodes, lastSet>>
    /\ UNCHANGED <<chanVars, config>>

\* addVariableNode(server, n, name): the node is created in the nodestore
\* that serves namespace n.
addVariableNode(n) ==
    /\ server = "up"
    /\ LET store == GetNodestoreOf(registry, n)
       IN  /\ nodes' = [nodes EXCEPT ![store] = @ \cup {servers}]
           /\ regOp' = RegOp("add", n, NoBackend, store)
    /\ UNCHANGED <<server, servers, registry, alive, lastSet>>
    /\ UNCHANGED <<chanVars, config>>

\* UA_Server_delete: the switch goes, with the default nodestore and every
\* nodestore still linked, and their nodes.
UA_Server_delete ==
    /\ server = "up"
    /\ server' = "down"
    /\ LET gone == DeletedWithServer(registry)
       IN  /\ alive' = [b \in AllStores |-> alive[b] /\ b \notin gone]
           /\ nodes' = [b \in AllStores |-> IF b \in gone THEN {} ELSE nodes[b]]
    /\ registry' = [n \in NsIndices |-> NoBackend]
    /\ lastSet' = [n \in NsIndices |-> "unset"]
    /\ regOp' = RegOp("delete", 0, NoBackend, NoBackend)
    /\ UNCHANGED servers
    /\ UNCHANGED <<chanVars, config>>

\* UA_Server_new: a fresh server with an empty switch and its own default
\* nodestore.
UA_Server_new ==
    /\ server = "down"
    /\ servers < MaxServers
    /\ server' = "up"
    /\ servers' = servers + 1
    /\ alive' = [alive EXCEPT ![DefaultBackend] = TRUE]
    /\ nodes' = [nodes EXCEPT ![DefaultBackend] = {}]
    /\ regOp' = RegOp("new", 0, NoBackend, NoBackend)
    /\ UNCHANGED <<registry, lastSet>>
    /\ UNCHANGED <<chanVars, config>>

NextRegistry ==
    \/ \E n \in NsIndices, h \in Backends \cup {NoBackend} :
          UA_Nodestore_Switch_setNodestore(n, h)
    \/ \E n \in NsIndices : UA_Nodestore_Switch_getNodestore(n)
    \/ \E n \in NsIndices : addVariableNode(n)
    \/ UA_Server_delete
    \/ UA_Server_new

SpecRegistry == Init /\ [][NextRegistry]_vars

\* ================================================================ properties
TopicOps == {"regist", "unregist", "send"}
ChannelOps == {"regist", "unregist", "send", "yield"}
TransportCalls == {"publish", "subscribe", "unsubscribe", "yield"}

\* The events of kind k in a trace, in order.
OfKind(t, k) == SelectSeq(t, LAMBDA e : e.k = k)
\* The resources named by the events of kind k, in order.
Named(t, k) == [i \in 1..Len(OfKind(t, k)) |-> OfKind(t, k)[i].r]
\* The resources acquired by a trace: successful allocations and connects.
Acquired(t) ==
    LET got == SelectSeq(t, LAMBDA e : e.k \in {"alloc", "connect"} /\ e.res = GOOD)
    IN  [i \in 1..Len(got) |-> got[i].r]
\* The resources a trace releases that it holds at that moment.
Released(t) ==
    LET rel == SelectSeq(t, LAMBDA e : e.k \in {"free", "disconnect"})
        all == [i \in 1..Len(rel) |-> rel[i].r]
    IN  SelectSeq(all, LAMBDA r : \E i \in 1..Len(Acquired(t)) : Acquired(t)[i] = r)
Reverse(q) == [i \in 1..Len(q) |-> q[Len(q) + 1 - i]]
\* Position of x in q (0 when absent).
Pos(q, x) == IF \E i \in 1..Len(q) : q[i] = x
             THEN CHOOSE i \in 1..Len(q) : q[i] = x ELSE 0

\* The last operation was a send on a Ready channel without usable settings.
SendWithoutSettings ==
    op.name = "send" /\ op.pre = "Ready" /\ ~HasBrokerSettings(op.arg)

\* C1: send on a Ready channel whose settings are absent, not decoded or of
\* the wrong type returns MissingArguments, leaves the channel Ready and
\* publishes nothing.
C1_SendMissingSettings ==
    SendWithoutSettings =>
        /\ op.ret = BADARGUMENTSMISSING
        /\ state = "Ready"
        /\ OfKind(op.trace, "publish") = <<>>

\* The last operation was the first close of a channel.
FirstClose == op.name = "close" /\ closes = 1

\* C2: after close (from Ready or Error, after any sequence of operations)
\* the connection and both buffers are released: nothing allocated at open
\* remains allocated and nothing was released twice.
C2_CloseReleasesAll ==
    FirstClose =>
        \A r \in Resources : heap[r] \in {"none", "freed"}

\* C3: the first close succeeds and puts the channel in Closed; every later
\* close returns success, disconnects nothing and frees nothing.
C3_CloseIdempotent ==
    /\ FirstClose => (op.ret = GOOD /\ state = "Closed")
    /\ (op.name = "close" /\ closes > 1) =>
           (op.ret = GOOD /\ op.trace = <<>> /\ state = "Closed")

\* C4: once the channel state is Error, no regist, unregist, send or yield
\* makes it Ready again; a step that leaves Error is a close.
C4_ErrorSticky ==
    [][state = "Error" => (state' = "Error" \/ op'.name = "close")]_vars

\* A channel operation has run on a channel that was already in Error.
C4_Witness ==
    /\ op.pre = "Error" /\ state = "Error"
    /\ op.name \in TopicOps \/ (op.name = "yield" /\ op.ret = BADINTERNALERROR)

\* C5: on a channel in Error, send, regist and unregist return
\* ConnectionClosed whatever the settings, make no transport call and leave
\* the state Error.
C5_ErrorFailsClosed ==
    (op.name \in TopicOps /\ op.pre = "Error") =>
        /\ op.ret = BADCONNECTIONCLOSED
        /\ op.trace = <<>>
        /\ state = "Error"

\* A send with valid broker settings has run on a channel in Error.
C5_Witness ==
    op.name = "send" /\ op.pre = "Error" /\ HasBrokerSettings(op.arg)

\* The failure class of a status code.
StatusClass(code) ==
    IF code \in TransportFailure THEN "TransportFailure"
    ELSE IF code = BADCONNECTIONCLOSED THEN "ConnectionClosed"
    ELSE IF code = BADARGUMENTSMISSING THEN "MissingArguments"
    ELSE code

\* C6: yield on a channel in Error fails without pumping, leaves the state
\* Error, and returns a failure of the same class as the failure that put
\* the channel into Error.
C6_YieldErrorSameClass ==
    (op.name = "yield" /\ op.arg = "channel" /\ op.pre = "Error") =>
        /\ op.trace = <<>>
        /\ state = "Error"
        /\ op.ret # GOOD
        /\ StatusClass(op.ret) = StatusClass(errCause)

\* The transport call of the step just taken failed, and it was a publish
\* or a pump.
PumpOrPublishFailed(o) ==
    /\ o.trace # <<>>
    /\ o.trace[1].k \in {"publish", "yield"}
    /\ o.trace[1].res # GOOD

\* C7: a Ready channel becomes Error exactly when the publish inside send or
\* the pump inside yield fails, and that call returns the failure; every
\* other regist, unregist, send or yield leaves it Ready, a failing
\* subscribe or unsubscribe included, whose failure is returned.
C7_ReadyToError ==
    [][state = "Ready" =>
          /\ state' = "Error" <=> (op'.name \in {"send", "yield"} /\ PumpOrPublishFailed(op'))
          /\ state' \in {"Ready", "Error"}
          /\ (op'.name \in {"send", "yield"} /\ PumpOrPublishFailed(op'))
                => op'.ret = op'.trace[1].res
          /\ (op'.name \in {"regist", "unregist"} /\ op'.trace # <<>>)
                => (op'.ret = op'.trace[1].res /\ state' = "Ready")
      ]_vars

\* A send moved the channel from Ready to Error and returned the failure.
C7_Witness ==
    /\ op.name = "send" /\ op.pre = "Ready" /\ state = "Error"
    /\ op.ret \in TransportFailure /\ op.ret = errCause

\* The last operation was an open that failed after the address check.
FailedOpen == op.name = "open" /\ op.arg.addressOk /\ op.ret = "NULL"

\* What holds of every open, whatever the release order: a failed open
\* returns no channel and leaves nothing allocated or freed twice; a
\* returned channel is Ready with the five operations installed.
OpenAllOrNothing ==
    /\ (op.name = "open" /\ op.ret = "NULL") =>
          /\ handle = "NULL"
          /\ ~installed
          /\ \A r \in Resources : heap[r] \in {"none", "freed"}
          /\ Len(Released(op.trace)) = Len(Acquired(op.trace))
    /\ (op.name = "open" /\ op.ret = "channel") =>
          /\ handle = "channel" /\ state = "Ready" /\ installed
          /\ OfKind(op.trace, "free") = <<>>
          /\ heap["channel"] = "alloc" /\ heap["channelData"] = "alloc"
          /\ heap["connection"] = "alloc"
    /\ handle = "channel" => installed

\* C8 as stated: a failed open releases what it acquired in reverse order of
\* acquisition, and returns no channel; a returned channel is Ready with
\* all five operations installed.
C8_RollbackReverseOrder ==
    /\ OpenAllOrNothing
    /\ FailedOpen => Released(op.trace) = Reverse(Acquired(op.trace))

\* C8 amended: a failed open releases every resource it acquired exactly
\* once and returns no channel; the connection and the buffers are released
\* in reverse order of acquisition, then the channel data, then the channel
\* object (which was acquired after the channel data); a returned channel is
\* Ready with all five operations installed.
C8_RollbackComplete ==
    /\ OpenAllOrNothing
    /\ FailedOpen =>
          LET acq == Acquired(op.trace)
              rel == Released(op.trace)
              inner == SelectSeq(acq, LAMBDA r : r \notin {"channelData", "channel"})
              outer == SelectSeq(acq, LAMBDA r : r \in {"channelData", "channel"})
          IN  rel = Reverse(inner) \o outer

\* An open failed at the connect step after both buffers were allocated.
C8_Witness ==
    /\ FailedOpen
    /\ op.arg.connRes # GOOD
    /\ Len(OfKind(op.trace, "alloc")) = 4
    /\ heap["recvBuffer"] = "freed" /\ heap["sendBuffer"] = "freed"

\* C9: open with an address that is not of the recognised type returns no
\* channel, allocates nothing and never calls connect.
C9_InvalidAddress ==
    (op.name = "open" /\ ~op.arg.addressOk) =>
        /\ op.ret = "NULL"
        /\ handle = "NULL"
        /\ op.trace = <<>>
        /\ heap = EmptyHeap

\* An open with an invalid address has run.
C9_Witness ==
    op.name = "open" /\ ~op.arg.addressOk /\ op.ret = "NULL"

\* The last open got as far as the receive (send) buffer step.
ReachedRecvStep ==
    op.name = "open" /\ op.arg.addressOk /\ op.arg.allocFail \notin {"channelData", "channel"}
ReachedSendStep ==
    ReachedRecvStep /\ ~(op.arg.allocFail = "recvBuffer" /\ recvSize > 0)

\* C10: open with both resolved sizes 0, a valid address and a succeeding
\* connect returns a Ready channel and attempts no buffer allocation; in
\* general open allocates a buffer iff its resolved size is above zero.
C10_ZeroSizeNoBuffer ==
    /\ (ReachedRecvStep /\ sendSize = 0 /\ recvSize = 0 /\ op.arg.connRes = GOOD) =>
          /\ op.ret = "channel" /\ state = "Ready"
          /\ Len(OfKind(op.trace, "alloc")) = 2
          /\ heap["recvBuffer"] = "none" /\ heap["sendBuffer"] = "none"
    /\ ReachedRecvStep =>
          (Pos(Named(op.trace, "alloc"), "recvBuffer") > 0 <=> recvSize > 0)
    /\ ReachedSendStep =>
          (Pos(Named(op.trace, "alloc"), "sendBuffer") > 0 <=> sendSize > 0)
    /\ (op.name = "open" /\ op.ret = "channel") =>
          /\ heap["recvBuffer"] = "alloc" <=> recvSize > 0
          /\ heap["sendBuffer"] = "alloc" <=> sendSize > 0

\* An open with both sizes resolved to 0 returned a channel.
C10_Witness ==
    op.name = "open" /\ op.ret = "channel" /\ sendSize = 0 /\ recvSize = 0

\* ------------------------------------------- properties of the open of `config`
\* The last operation was an open that got as far as reading the properties.
OpenParsed == op.name = "open" /\ op.arg.addressOk /\ op.arg.allocFail # "channelData"

\* The last operation was an open that called connectMqtt.
OpenConnected == op.name = "open" /\ OfKind(op.trace, "connect") # <<>>

\* The properties of `config` with the given name (and type).
PropsNamed(name) == SelectSeq(config.props, LAMBDA p : p.name = name)
PropsTyped(name, type) == SelectSeq(config.props, LAMBDA p : p.name = name /\ p.type = type)

\* C11 as stated: when the property list holds no mqttClientId property,
\* the channel connects with the client id "generic_pub".
C11_DefaultClientIdGeneric ==
    (OpenConnected /\ PropsNamed("mqttClientId") = <<>>) => clientId = "generic_pub"

\* C11 amended: when the property list holds no mqttClientId property, the
\* channel connects with the client id "open62541_pub".
C11_DefaultClientId ==
    (OpenConnected /\ PropsNamed("mqttClientId") = <<>>) => clientId = "open62541_pub"

\* An open with a non-empty list without mqttClientId reached the connect.
C11_Witness ==
    OpenConnected /\ PropsNamed("mqttClientId") = <<>> /\ config.props # <<>>

\* The size the claim predicts for a direction: 2000 without a UInt32
\* property of that name, else the value of the last one.
ExpectedSize(name) ==
    LET u == PropsTyped(name, "UInt32")
    IN  IF u = <<>> THEN 2000 ELSE u[Len(u)].num

\* The step at which the open must fail, given the predicted sizes.
ExpectedOpenOutcome ==
    IF ~op.arg.addressOk \/ op.arg.allocFail \in {"channelData", "channel"} THEN "NULL"
    ELSE IF op.arg.allocFail = "recvBuffer" /\ ExpectedSize("recvBufferSize") > 0 THEN "NULL"
    ELSE IF op.arg.allocFail = "sendBuffer" /\ ExpectedSize("sendBufferSize") > 0 THEN "NULL"
    ELSE IF op.arg.connRes # GOOD THEN "NULL"
    ELSE "channel"

\* C12: each resolved buffer size is 2000 when the list has no UInt32
\* property of that name and otherwise the value of the last such property;
\* a property of that name with another type changes nothing and does not
\* make open fail.
C12_ResolvedSizes ==
    /\ OpenParsed => /\ sendSize = ExpectedSize("sendBufferSize")
                     /\ recvSize = ExpectedSize("recvBufferSize")
    /\ op.name = "open" => op.ret = ExpectedOpenOutcome

\* An open succeeded on a list naming sendBufferSize twice: first with a
\* value of another type or another number, last with a UInt32.
C12_Witness ==
    /\ op.name = "open" /\ op.ret = "channel"
    /\ Len(PropsNamed("sendBufferSize")) >= 2
    /\ PropsNamed("sendBufferSize")[1].num # sendSize
    /\ sendSize # 2000

\* The property list of `config` without the unrecognised names.
RecognisedOnly ==
    SelectSeq(config.props,
              LAMBDA p : p.name \in {"sendBufferSize", "recvBufferSize", "mqttClientId"})

\* C13: open gives the same outcome and the same resolved send size,
\* receive size and client id as for the list without the unrecognised
\* properties.
C13_UnknownIgnored ==
    op.name = "open" =>
        LET stripped == [config EXCEPT !.props = RecognisedOnly]
            cd == ParseProperties(DefaultChannelData, RecognisedOnly)
        IN  /\ (op.ret = "channel")
                   <=> OpenSucceeds(stripped, op.arg.allocFail, op.arg.connRes)
            /\ OpenParsed => /\ sendSize = cd.sendSize
                             /\ recvSize = cd.recvSize
                             /\ clientId = cd.clientId

\* An open succeeded on a list that holds an unrecognised String property
\* and a recognised one.
C13_Witness ==
    /\ op.name = "open" /\ op.ret = "channel"
    /\ PropsTyped("other", "String") # <<>>
    /\ RecognisedOnly # <<>>

\* ------------------------------------------------ properties of the topic calls
\* The level the claim assigns to a delivery guarantee.
ClaimedQos(g) ==
    CASE g = "BestEffort" -> 0
      [] g = "AtLeastOnce" -> 1
      [] g = "AtMostOnce" -> 2

\* C14: BestEffort maps to 0, AtLeastOnce to 1 and AtMostOnce to 2, and
\* regist and send pass exactly that level to subscribe and publish.
C14_QosPassed ==
    (/\ op.name \in {"regist", "send"}
     /\ op.pre = "Ready"
     /\ op.arg.kind = "broker"
     /\ op.arg.guarantee \in {"BestEffort", "AtLeastOnce", "AtMostOnce"}) =>
        /\ Len(op.trace) = 1
        /\ op.trace[1].k = (IF op.name = "regist" THEN "subscribe" ELSE "publish")
        /\ op.trace[1].qos = ClaimedQos(op.arg.guarantee)

\* A send on a Ready channel published with AtMostOnce.
C14_Witness ==
    /\ op.name = "send" /\ op.pre = "Ready" /\ op.arg.kind = "broker"
    /\ op.arg.guarantee = "AtMostOnce" /\ op.trace # <<>>

\* C15: on a Ready channel regist (unregist) issues one subscribe
\* (unsubscribe) for the settings' topic iff the settings are present,
\* decoded and of the broker type, and returns its result; otherwise it
\* returns MissingArguments and calls nothing; the state stays Ready.
C15_RegistSettings ==
    (op.name \in {"regist", "unregist"} /\ op.pre = "Ready") =>
        /\ state = "Ready"
        /\ IF op.arg.kind = "broker"
           THEN /\ Len(op.trace) = 1
                /\ op.trace[1].k = (IF op.name = "regist" THEN "subscribe" ELSE "unsubscribe")
                /\ op.trace[1].r = op.arg.queueName
                /\ op.ret = op.trace[1].res
           ELSE /\ op.trace = <<>>
                /\ op.ret = BADARGUMENTSMISSING

\* An unregist on a Ready channel was given decoded settings of another type.
C15_Witness ==
    /\ op.name = "unregist" /\ op.pre = "Ready" /\ op.arg.kind = "wrongType"
    /\ op.ret = BADARGUMENTSMISSING

\* C19: a regist that fails with ConnectionClosed or MissingArguments, i.e.
\* that does not reach the subscribe step, leaves the recorded callback
\* unchanged.
C19_FailedRegistKeepsCallback ==
    [][(op'.name = "regist" /\ op'.trace = <<>>
        /\ op'.ret \in {BADCONNECTIONCLOSED, BADARGUMENTSMISSING})
          => callback' = callback]_vars

\* C20: a live channel in Ready holds a connection that was made and not
\* yet released, and holds each buffer iff its size resolved at open is
\* above zero; regist, unregist, send and yield change neither the sizes
\* nor the buffers.
C20_ReadyOwnsResources ==
    /\ [](Live /\ state = "Ready" =>
             /\ heap["connection"] = "alloc"
             /\ heap["recvBuffer"] = "alloc" <=> recvSize > 0
             /\ heap["sendBuffer"] = "alloc" <=> sendSize > 0
             /\ heap["recvBuffer"] \in {"alloc", "none"}
             /\ heap["sendBuffer"] \in {"alloc", "none"})
    /\ [][op'.name \in ChannelOps => UNCHANGED <<sendSize, recvSize, heap>>]_vars

\* A send ran on a live Ready channel that holds a send buffer and no
\* receive buffer.
C20_Witness ==
    /\ Live /\ state = "Ready" /\ op.name = "send" /\ op.pre = "Ready"
    /\ recvSize = 0 /\ sendSize > 0

\* ---------------------------------------------- properties of the registry
\* C16: after setBackend(n, H) every getBackend(n) returns H until the next
\* setBackend(n, *), whatever was set for other indices meanwhile; a lookup
\* yields the one backend mapped to the namespace.
C16_GetAfterSet ==
    (regOp.name = "get" /\ lastSet[regOp.n] \in Backends) =>
        regOp.result = lastSet[regOp.n]

\* getBackend(n) answered while another index is linked to another backend.
C16_Witness ==
    /\ regOp.name = "get" /\ lastSet[regOp.n] \in Backends
    /\ \E m \in NsIndices : /\ m # regOp.n
                            /\ lastSet[m] \in Backends
                            /\ lastSet[m] # lastSet[regOp.n]

\* C17: after setBackend(n, None), and in an empty registry, getBackend(n)
\* returns the default backend, never another namespace's backend; and
\* setBackend(n, None) leaves the mappings of the other indices unchanged.
C17_UnlinkGivesDefault ==
    /\ []((regOp.name = "get" /\ lastSet[regOp.n] \in {NoBackend, "unset"})
             => regOp.result = DefaultBackend)
    /\ [][(regOp'.name = "set" /\ regOp'.h = NoBackend) =>
             \A m \in NsIndices \ {regOp'.n} : registry'[m] = registry[m]]_vars

\* getBackend(n) answered after setBackend(n, None) while another index is
\* still linked.
C17_Witness ==
    /\ regOp.name = "get" /\ lastSet[regOp.n] = NoBackend
    /\ regOp.result = DefaultBackend
    /\ \E m \in NsIndices : registry[m] \in Backends

\* The backends linked in a registry.
Linked(reg) == {reg[n] : n \in NsIndices} \cap Backends

\* C18: setBackend never destroys a backend or its nodes; a teardown
\* destroys exactly the backends still linked, the others keep their
\* nodes; a new server leaves them alone; and a linked backend, relinked
\* ones included, is alive and is what getBackend returns.
C18_BackendLifetime ==
    /\ [][/\ regOp'.name = "set" => (alive' = alive /\ nodes' = nodes)
          /\ (regOp'.name = "delete" /\ server = "up") =>
                \A b \in Backends :
                    /\ alive'[b] <=> (alive[b] /\ b \notin Linked(registry))
                    /\ b \notin Linked(registry) => nodes'[b] = nodes[b]
          /\ (regOp'.name = "new" /\ server = "down") =>
                \A b \in Backends : alive'[b] = alive[b] /\ nodes'[b] = nodes[b]
         ]_vars
    /\ [](\A b \in Linked(registry) : alive[b])
    /\ []((regOp.name = "get" /\ registry[regOp.n] \in Backends)
             => (regOp.result = registry[regOp.n] /\ alive[regOp.result]))

\* A backend that received nodes under the first server was unlinked, has
\* survived the teardown with them, and is returned by the second server's
\* registry.
C18_Witness ==
    /\ servers = 2 /\ server = "up"
    /\ regOp.name = "get" /\ regOp.result \in Backends
    /\ alive[regOp.result] /\ 1 \in nodes[regOp.result]

====
